---- MODULE Spec2Model ----
(***************************************************************************)
(* Memori frontend: the memory explorer (MemoryExplorer.jsx), its filter   *)
(* panel (FilterPanel.jsx), statistics card (StatsCard.jsx), upload panel  *)
(* (UploadPanel.jsx) and detail modal (MemoryModal.jsx), the API client    *)
(* (services/api: fetchMemories, getMemoryStats, uploadAudioMemory) and    *)
(* the filtering and aggregation engine behind GET /memories and           *)
(* GET /memories/stats.                                                    *)
(*                                                                         *)
(* Strings are sequences of one-character strings, so that lower-casing,   *)
(* substring search and blank tests are computed and not assumed.          *)
(* An optional value is a sequence of length 0 (absent: undefined / null)  *)
(* or 1 (present).                                                         *)
(***************************************************************************)
EXTENDS Integers, Sequences, FiniteSets, TLC

VARIABLES
    collection,      \* the records the storage collaborator holds (input of the engine)
    referenceTime,   \* the injected "now" of the date-range dimension, in hours
    \* ---- MemoryExplorer state (useState hooks) ----
    mounted,         \* the component has been mounted and its effects have run
    memories,        \* const [memories, setMemories] = useState([])
    selectedMemory,  \* const [selectedMemory, setSelectedMemory] = useState(null)
    filters,         \* const [filters, setFilters] = useState({})
    stats,           \* const [stats, setStats] = useState({})
    loading,         \* const [loading, setLoading] = useState(false)
    error,           \* const [error, setError] = useState(null)
    memReqs,         \* loadMemories calls awaiting fetchMemories
    statsReqs,       \* loadStats calls awaiting getMemoryStats
    nextId,          \* number of the next request issued
    \* ---- one filtering call followed step by step ----
    stage,           \* "off" | "config" | "request" | "output" | "refused" | "shown" | "failed"
    configuration,   \* the FilterConfiguration handed to fetchMemories
    queryParams,     \* the URLSearchParams fetchMemories built from it
    url,             \* the URL fetchMemories requested
    response,        \* the response fetch resolved with (status, ok)
    filtered,        \* the sequence the Collection Filter returned
    \* ---- child components ----
    panelCalls,      \* FilterPanel: the calls its last handler made to its props
    keydownListener, \* MemoryModal: window has the modal's keydown listener
    selectedFile,    \* UploadPanel: const [selectedFile, setSelectedFile] = useState(null)
    uploading,       \* UploadPanel: const [uploading, setUploading] = useState(false)
    progress,        \* UploadPanel: const [progress, setProgress] = useState(0)
    uploadError,     \* UploadPanel: const [error, setError] = useState(null)
    success,         \* UploadPanel: const [success, setSuccess] = useState(false)
    xhr              \* UploadPanel: the file of the uploadAudioMemory call awaited

vars == <<collection, referenceTime, mounted, memories, selectedMemory, filters,
          stats, loading, error, memReqs, statsReqs, nextId,
          stage, configuration, queryParams, url, response, filtered,
          panelCalls, keydownListener,
          selectedFile, uploading, progress, uploadError, success, xhr>>

explorerVars == <<mounted, memories, selectedMemory, filters, stats, loading,
                  error, memReqs, statsReqs, nextId>>

callVars == <<stage, configuration, queryParams, url, response, filtered>>

uploadVars == <<selectedFile, uploading, progress, uploadError, success, xhr>>

childVars == <<panelCalls, keydownListener, uploadVars>>

----------------------------------------------------------------------------
(* Optional values *)

None == <<>>

Some(x) == <<x>>

(* Strings *)

UpperLetters == <<"A","B","C","D","E","F","G","H","I","J","K","L","M",
                  "N","O","P","Q","R","S","T","U","V","W","X","Y","Z">>

LowerLetters == <<"a","b","c","d","e","f","g","h","i","j","k","l","m",
                  "n","o","p","q","r","s","t","u","v","w","x","y","z">>

LowerChar(c) ==
    IF \E i \in DOMAIN UpperLetters : UpperLetters[i] = c
    THEN LowerLetters[CHOOSE i \in DOMAIN UpperLetters : UpperLetters[i] = c]
    ELSE c

ToLowerCase(s) == [i \in 1..Len(s) |-> LowerChar(s[i])]

IsSubstring(q, s) ==
    \E i \in 1..(Len(s) - Len(q) + 1) : SubSeq(s, i, i + Len(q) - 1) = q

IsBlank(s) == \A i \in 1..Len(s) : s[i] \in {" ", "\t", "\n"}

EmptyString == <<>>

happy    == <<"h","a","p","p","y">>
Happy    == <<"H","a","p","p","y">>
sad      == <<"s","a","d">>
unknown  == <<"u","n","k","n","o","w","n">>
work     == <<"w","o","r","k">>
homework == <<"h","o","m","e","w","o","r","k">>
family   == <<"f","a","m","i","l","y">>
today    == <<"t","o","d","a","y">>
week     == <<"w","e","e","k">>
month    == <<"m","o","n","t","h">>
year     == <<"y","e","a","r">>
all      == <<"a","l","l">>
decade   == <<"d","e","c","a","d","e">>
morning  == <<"m","o","r","n","i","n","g">>
COFFEE   == <<"C","O","F","F","E","E">>
MorningCoffee == <<"M","o","r","n","i","n","g"," ","C","o","f","f","e","e">>
TeaAtWork == <<"t","e","a"," ","a","t"," ","w","o","r","k">>
Spaces   == <<" "," ">>
Symbols  == <<"a","&","b","="," ","+","%","?">>
angry     == <<"a","n","g","r","y">>
fearful   == <<"f","e","a","r","f","u","l">>
disgust   == <<"d","i","s","g","u","s","t">>
surprised == <<"s","u","r","p","r","i","s","e","d">>
neutral   == <<"n","e","u","t","r","a","l">>
NA        == <<"N","/","A">>

----------------------------------------------------------------------------
(* Time: hours since the start of year 0 of a calendar without leap years. *)

HoursPerDay == 24

DaysPerWeek == 7

DaysPerYear == 365

\* CumulativeDays[m] = days of the year before month m
CumulativeDays == <<0, 31, 59, 90, 120, 151, 181, 212, 243, 273, 304, 334, 365>>

Days(n) == n * HoursPerDay

StartOfDay(t) == t - (t % HoursPerDay)

WeekBack(t) == t - Days(DaysPerWeek)

\* the same day of the previous month, clamped to that month's last day
MonthBack(t) ==
    LET day  == t \div HoursPerDay
        hour == t % HoursPerDay
        y    == day \div DaysPerYear
        doy  == day % DaysPerYear
        m    == CHOOSE k \in 1..12 : CumulativeDays[k] <= doy /\ doy < CumulativeDays[k + 1]
        dom  == doy - CumulativeDays[m]
        pm   == IF m = 1 THEN 12 ELSE m - 1
        py   == IF m = 1 THEN y - 1 ELSE y
        plen == CumulativeDays[pm + 1] - CumulativeDays[pm]
        pdom == IF dom < plen THEN dom ELSE plen - 1
    IN  Days(py * DaysPerYear + CumulativeDays[pm] + pdom) + hour

YearBack(t) == t - Days(DaysPerYear)

\* 31 March of year 50, 13:00
T0 == Days(50 * DaysPerYear + 59 + 30) + 13

\* the reference times tried: T0, and 29 April 13:00 (one calendar month after T0 - 2 days)
NowSet == {T0, T0 + Days(29)}

----------------------------------------------------------------------------
(* MemoryRecord: every field except id is optional. *)

MemoryRecord(id, timestamp, emotion, topics, textContent, importanceScore) ==
    [id |-> id, timestamp |-> timestamp, emotion |-> emotion, topics |-> topics,
     textContent |-> textContent, importanceScore |-> importanceScore]

\* a record with nothing but an (empty) id
EmptyRecord == MemoryRecord(EmptyString, None, None, None, None, None)

\* importanceScore is kept in hundredths (0..100 for 0..1)
Rec1 == MemoryRecord(<<"a">>, Some(T0 - Days(2)),   Some(happy), Some(<<work>>),
                     Some(MorningCoffee), Some(80))
Rec2 == MemoryRecord(<<"b">>, Some(T0 - Days(10)),  Some(happy), Some(<<family>>),
                     Some(EmptyString), None)
Rec3 == MemoryRecord(<<"c">>, Some(T0 - Days(400)), Some(sad),   Some(<<work>>),
                     Some(TeaAtWork), Some(20))
\* a malformed record: nothing but an id
Rec4 == MemoryRecord(<<"d">>, None, None, None, None, None)
\* exactly seven days before T0; capitalised emotion; a topic that contains "work"
Rec5 == MemoryRecord(<<"e">>, Some(T0 - Days(7)),   Some(Happy), Some(<<homework, family>>),
                     Some(ToLowerCase(COFFEE)), Some(50))
\* exactly the start of the day of T0; an empty topic list
Rec6 == MemoryRecord(<<"f">>, Some(StartOfDay(T0)), Some(sad),   Some(<<>>),
                     None, Some(100))

RecordPool == {Rec1, Rec3, Rec4, Rec5}

\* longest collection drawn from the pool
MaxLen == 2

SeqsUpTo(S, n) == UNION {[1..k -> S] : k \in 0..n}

\* the collections of the testable scenarios (three records each)
Scenarios == {<<Rec1, Rec2, Rec3>>, <<Rec3, Rec1, Rec5>>, <<Rec6, Rec4, Rec2>>}

Collections == SeqsUpTo(RecordPool, MaxLen) \cup Scenarios

----------------------------------------------------------------------------
(* FilterConfiguration as the filter panel holds it: a JS object; a key    *)
(* that is not set is None.                                                *)

FilterKeys == {"emotion", "topic", "dateRange", "search"}

\* useState({}) / setFilters({})
EmptyFilters == [k \in FilterKeys |-> None]

\* FilterPanel.availableFilters.dateRanges (ids)
dateRanges == <<today, week, month, year, all>>

DateRangeIds == {dateRanges[i] : i \in DOMAIN dateRanges}

\* the values each control of the panel can send to handleFilterChange
\* (every select has the option value ''; the search box any text)
PanelValues ==
    [emotion   |-> {EmptyString, happy},
     topic     |-> {EmptyString, work},
     dateRange |-> {EmptyString} \cup DateRangeIds \cup {decade},
     search    |-> {EmptyString, Spaces, morning, COFFEE}]

\* a new configuration that holds the changed dimension alone
handleFilterChangeAlone(fs, filterType, value) ==
    [EmptyFilters EXCEPT ![filterType] = Some(value)]

\* FilterPanel.handleFilterChange: { ...filters, [filterType]: value }
handleFilterChange(fs, filterType, value) == [fs EXCEPT ![filterType] = Some(value)]

\* a reset that leaves the emotion filter in place
resetFiltersKeepsEmotion(fs) == [k \in FilterKeys |-> IF k = "emotion" THEN fs[k] ELSE None]

\* FilterPanel.resetFilters: setFilters({}); onFilterChange({})
resetFilters(fs) == EmptyFilters

\* a call the panel makes to one of its props
PropCall(prop, arg) == [prop |-> prop, arg |-> arg]

\* FilterPanel.handleFilterChange: setFilters(newFilters); onFilterChange(newFilters)
handleFilterChangeCalls(fs, filterType, value) ==
    LET newFilters == handleFilterChange(fs, filterType, value)
    IN  <<PropCall("setFilters", newFilters), PropCall("onFilterChange", newFilters)>>

\* FilterPanel.resetFilters: the calls it makes, in order
resetFiltersCalls(fs) ==
    <<PropCall("setFilters", resetFilters(fs)), PropCall("onFilterChange", resetFilters(fs))>>

\* the explorer's filters after the calls: the panel's setFilters is the
\* explorer's, and onFilterChange (MemoryExplorer.handleFilterChange) calls it
\* again, so the argument of the last call is the state
FiltersAfter(calls) == calls[Len(calls)].arg

\* fetchMemories as it would be with a return inside the loop: one entry only
QueryParamsFirstOnly(fs) ==
    LET sent == {key \in DOMAIN fs : fs[key] # None /\ fs[key][1] # EmptyString}
        first == IF "emotion" \in sent THEN {"emotion"}
                 ELSE IF sent = {} THEN {} ELSE {CHOOSE key \in sent : TRUE}
    IN  [k \in first |-> fs[k][1]]

\* fetchMemories as it would be if it skipped one key
QueryParamsWithout(fs, skipped) ==
    [k \in {key \in DOMAIN fs \ {skipped} : fs[key] # None /\ fs[key][1] # EmptyString}
       |-> fs[k][1]]

QueryParamsWithoutEmotion(fs) == QueryParamsWithout(fs, "emotion")

QueryParamsWithoutTopic(fs) == QueryParamsWithout(fs, "topic")

QueryParamsWithoutDateRange(fs) == QueryParamsWithout(fs, "dateRange")

QueryParamsWithoutSearch(fs) == QueryParamsWithout(fs, "search")

\* fetchMemories: the entries appended to queryParams
QueryParams(fs) ==
    [k \in {key \in DOMAIN fs : fs[key] # None /\ fs[key][1] # EmptyString} |-> fs[k][1]]

\* the filter keys as they are written into the query string, in the order
\* the entries are serialised
KeyOrder == <<"emotion", "topic", "dateRange", "search">>

KeyChars ==
    [emotion   |-> <<"e","m","o","t","i","o","n">>,
     topic     |-> <<"t","o","p","i","c">>,
     dateRange |-> <<"d","a","t","e","R","a","n","g","e">>,
     search    |-> <<"s","e","a","r","c","h">>]

\* URLSearchParams.toString: the percent-encoding of the characters tried
\* that are not written as they are
PercentCode ==
    [c \in {"&", "=", "+", "%", "?"} |->
        CASE c = "&" -> <<"%","2","6">>
          [] c = "=" -> <<"%","3","D">>
          [] c = "+" -> <<"%","2","B">>
          [] c = "%" -> <<"%","2","5">>
          [] c = "?" -> <<"%","3","F">>]

\* URLSearchParams.toString: a space becomes "+"
EncodeChar(c) ==
    IF c = " " THEN <<"+">>
    ELSE IF c \in DOMAIN PercentCode THEN PercentCode[c]
    ELSE <<c>>

RECURSIVE Encode(_)
Encode(s) == IF s = <<>> THEN <<>> ELSE EncodeChar(Head(s)) \o Encode(Tail(s))

RECURSIVE JoinPairs(_, _)
JoinPairs(keys, params) ==
    IF keys = <<>> THEN <<>>
    ELSE LET pair == KeyChars[Head(keys)] \o <<"=">> \o Encode(params[Head(keys)])
         IN  IF Len(keys) = 1 THEN pair
             ELSE pair \o <<"&">> \o JoinPairs(Tail(keys), params)

\* queryParams.toString()
QueryString(params) ==
    JoinPairs(SelectSeq(KeyOrder, LAMBDA key : key \in DOMAIN params), params)

\* `/memories` (API_BASE_URL, a fixed prefix, is left out)
MemoriesPath == <<"/","m","e","m","o","r","i","e","s">>

\* a URL that always carries the "?"
RequestUrlAlwaysQuery(fs) == MemoriesPath \o <<"?">> \o QueryString(QueryParams(fs))

\* fetchMemories: `${API_BASE_URL}/memories${queryParams.toString() ? '?' + ... : ''}`
RequestUrl(fs) ==
    LET query == QueryString(QueryParams(fs))
    IN  MemoriesPath \o (IF query # <<>> THEN <<"?">> \o query ELSE <<>>)

\* a fetchMemories that returns the body of every response
fetchMemoriesNeverThrows(answer) == FALSE

\* fetchMemories: if (!response.ok) throw new Error(`API error: ${response.status}`)
fetchMemoriesThrows(answer) == ~answer.ok

\* the Response of fetch: ok is true for the statuses 200..299
Response(status) == [status |-> status, ok |-> status >= 200 /\ status < 300]

\* the statuses GET /memories fails with in the runs
FailureStatuses == {404, 500}

\* the server's reading of the request URL: the part after "?", split at
\* "&" and "=", "+" read as a space and %XX as the character it encodes
QueryOf(address) ==
    IF \E i \in DOMAIN address : address[i] = "?"
    THEN LET first == CHOOSE i \in DOMAIN address :
                          address[i] = "?" /\ \A j \in 1..(i - 1) : address[j] # "?"
         IN  SubSeq(address, first + 1, Len(address))
    ELSE <<>>

RECURSIVE Split(_, _)
Split(s, separator) ==
    IF \E i \in DOMAIN s : s[i] = separator
    THEN LET first == CHOOSE i \in DOMAIN s :
                          s[i] = separator /\ \A j \in 1..(i - 1) : s[j] # separator
         IN  <<SubSeq(s, 1, first - 1)>> \o Split(SubSeq(s, first + 1, Len(s)), separator)
    ELSE <<s>>

RECURSIVE Decode(_)
Decode(s) ==
    IF s = <<>> THEN <<>>
    ELSE IF Head(s) = "+" THEN <<" ">> \o Decode(Tail(s))
    ELSE IF Head(s) = "%" /\ Len(s) >= 3
              /\ \E c \in DOMAIN PercentCode : PercentCode[c] = SubSeq(s, 1, 3)
    THEN <<CHOOSE c \in DOMAIN PercentCode : PercentCode[c] = SubSeq(s, 1, 3)>>
         \o Decode(SubSeq(s, 4, Len(s)))
    ELSE <<Head(s)>> \o Decode(Tail(s))

ParseQuery(address) ==
    LET query == QueryOf(address)
        pairs == IF query = <<>> THEN <<>> ELSE Split(query, "&")
        name(i) == Decode(Split(pairs[i], "=")[1])
        named == {i \in DOMAIN pairs : \E k \in FilterKeys : KeyChars[k] = name(i)}
        keyOf(i) == CHOOSE k \in FilterKeys : KeyChars[k] = name(i)
        value(i) == Decode(SubSeq(pairs[i], Len(Split(pairs[i], "=")[1]) + 2, Len(pairs[i])))
    IN  [k \in {keyOf(i) : i \in named} |->
            value(CHOOSE i \in named : keyOf(i) = k)]

----------------------------------------------------------------------------
(* The filtering engine behind GET /memories<query>.                       *)

\* the value of a dimension in the received parameters, None when not sent
Dimension(params, k) == IF k \in DOMAIN params THEN Some(params[k]) ELSE None

Inactive(d) == d = None \/ d[1] = EmptyString

EmotionDimension(record, d) ==
    \/ Inactive(d)
    \/ /\ record.emotion # None
       /\ ToLowerCase(record.emotion[1]) = d[1]

TopicDimension(record, d) ==
    \/ Inactive(d)
    \/ /\ record.topics # None
       /\ \E i \in 1..Len(record.topics[1]) : record.topics[1][i] = d[1]

\* a boundary that falls back to "today" for a range it does not know
StartBoundaryStrict(range, now) ==
    IF range = week THEN Some(WeekBack(now))
    ELSE IF range = month THEN Some(MonthBack(now))
    ELSE IF range = year THEN Some(YearBack(now))
    ELSE IF range = all THEN None
    ELSE Some(StartOfDay(now))

\* the inclusive start boundary; None when the range has no lower bound
StartBoundary(range, now) ==
    IF range = today THEN Some(StartOfDay(now))
    ELSE IF range = week THEN Some(WeekBack(now))
    ELSE IF range = month THEN Some(MonthBack(now))
    ELSE IF range = year THEN Some(YearBack(now))
    ELSE None

DateRangeDimension(record, d, now) ==
    \/ Inactive(d)
    \/ StartBoundary(d[1], now) = None
    \/ /\ record.timestamp # None
       /\ record.timestamp[1] >= StartBoundary(d[1], now)[1]

\* the text fields a query is matched against
CandidateFields(record) ==
    IF record.textContent = None THEN {} ELSE {record.textContent[1]}

SearchMatcher(record, d) ==
    \/ d = None
    \/ IsBlank(d[1])
    \/ \E field \in CandidateFields(record) :
           IsSubstring(ToLowerCase(d[1]), ToLowerCase(field))

FilterPredicate(record, params, now) ==
    /\ EmotionDimension(record, Dimension(params, "emotion"))
    /\ TopicDimension(record, Dimension(params, "topic"))
    /\ DateRangeDimension(record, Dimension(params, "dateRange"), now)
    /\ SearchMatcher(record, Dimension(params, "search"))

\* a pass that starts at the second record once the input is longer than one
CollectionFilterSkipsFirst(records, params, now) ==
    SelectSeq(IF Len(records) > 1 THEN Tail(records) ELSE records,
              LAMBDA r : FilterPredicate(r, params, now))

CollectionFilter(records, params, now) ==
    SelectSeq(records, LAMBDA r : FilterPredicate(r, params, now))

----------------------------------------------------------------------------
(* Statistics Aggregator: the StatisticsSummary of a collection, as        *)
(* GET /memories/stats answers it.                                         *)

\* the emotion labels of the records that have one, in collection order
EmotionLabels(records) ==
    LET having == SelectSeq(records, LAMBDA r : r.emotion # None)
    IN  [i \in 1..Len(having) |-> having[i].emotion[1]]

RECURSIVE Flatten(_)
Flatten(lists) == IF lists = <<>> THEN <<>> ELSE Head(lists) \o Flatten(Tail(lists))

\* the topics of all records, flattened in collection order
TopicLabels(records) ==
    LET having == SelectSeq(records, LAMBDA r : r.topics # None)
    IN  Flatten([i \in 1..Len(having) |-> having[i].topics[1]])

Occurrences(labels, label) == Cardinality({i \in 1..Len(labels) : labels[i] = label})

\* a later label also replaces the best one when it only ties with it
BeatsOrTies(labels, candidate, best) ==
    Occurrences(labels, candidate) >= Occurrences(labels, best)

\* a later label replaces the best one so far only with a strictly higher count
Beats(labels, candidate, best) ==
    Occurrences(labels, candidate) > Occurrences(labels, best)

\* one scan in collection order from position i, best label so far carried along
RECURSIVE TopFrom(_, _, _)
TopFrom(labels, i, best) ==
    IF i > Len(labels) THEN best
    ELSE TopFrom(labels, i + 1, IF Beats(labels, labels[i], best) THEN labels[i] ELSE best)

\* the label with the highest count, first seen wins a tie; "N/A" without labels
TopLabel(labels) == IF labels = <<>> THEN NA ELSE TopFrom(labels, 2, labels[1])

\* a rational number in lowest terms
RECURSIVE GCD(_, _)
GCD(a, b) == IF b = 0 THEN a ELSE GCD(b, a % b)

Ratio(n, d) == LET g == GCD(n, d) IN [num |-> n \div g, den |-> d \div g]

Zero == [num |-> 0, den |-> 1]

RECURSIVE Sum(_)
Sum(numbers) == IF numbers = <<>> THEN 0 ELSE Head(numbers) + Sum(Tail(numbers))

\* the importance scores of the records that have one
Scores(records) ==
    LET having == SelectSeq(records, LAMBDA r : r.importanceScore # None)
    IN  [i \in 1..Len(having) |-> having[i].importanceScore[1]]

\* a mean that divides by the number of all records
MeanOverAll(records) ==
    IF Len(records) = 0 THEN Zero ELSE Ratio(Sum(Scores(records)), Len(records))

\* avgImportance: the mean over the records that have the field, 0 without any
Mean(records) ==
    IF Len(Scores(records)) = 0 THEN Zero
    ELSE Ratio(Sum(Scores(records)), Len(Scores(records)))

\* lastUploadTimestamp: the greatest timestamp, absent without any
LastUpload(records) ==
    LET having == SelectSeq(records, LAMBDA r : r.timestamp # None)
    IN  IF having = <<>> THEN None
        ELSE Some(CHOOSE t \in {having[i].timestamp[1] : i \in 1..Len(having)} :
                      \A i \in 1..Len(having) : having[i].timestamp[1] <= t)

\* the configured bound of recentEmotions
RecentBound == 5

\* the records that have both an emotion and a timestamp, in collection order
Qualifying(records) ==
    SelectSeq(records, LAMBDA r : r.emotion # None /\ r.timestamp # None)

\* the position of q[i] once q is sorted most recent first (stable)
Rank(q, i) ==
    1 + Cardinality({j \in 1..Len(q) :
                        \/ q[j].timestamp[1] > q[i].timestamp[1]
                        \/ q[j].timestamp[1] = q[i].timestamp[1] /\ j < i})

MostRecentFirst(q) == [k \in 1..Len(q) |-> q[CHOOSE i \in 1..Len(q) : Rank(q, i) = k]]

\* the emotions of all qualifying records, most recent first, without a bound
RecentEmotionsUnbounded(records) ==
    LET sorted == MostRecentFirst(Qualifying(records))
    IN  [k \in 1..Len(sorted) |-> sorted[k].emotion[1]]

\* recentEmotions: the emotions of the most recent qualifying records
RecentEmotions(records) ==
    LET sorted == MostRecentFirst(Qualifying(records))
        n      == IF Len(sorted) < RecentBound THEN Len(sorted) ELSE RecentBound
    IN  [k \in 1..n |-> sorted[k].emotion[1]]

----------------------------------------------------------------------------
(* MemoryExplorer.                                                         *)

StatsKeys == {"totalMemories", "topEmotion", "topTopic", "avgImportance",
              "lastUpload", "recentEmotions"}

\* useState({}): no key is set
EmptyStats == [k \in StatsKeys |-> None]

\* the object GET /memories/stats answers with, over the stored collection
StatisticsSummary(records) ==
    [totalMemories  |-> Some(Len(records)),
     topEmotion     |-> Some(TopLabel(EmotionLabels(records))),
     topTopic       |-> Some(TopLabel(TopicLabels(records))),
     avgImportance  |-> Some(Mean(records)),
     lastUpload     |-> LastUpload(records),
     recentEmotions |-> Some(RecentEmotions(records))]

\* loadStats, catch: the default stats, from the list length the callback holds
FallbackStats(heldLength) ==
    [EmptyStats EXCEPT !.totalMemories = Some(heldLength),
                       !.topEmotion = Some(unknown),
                       !.avgImportance = Some(Zero)]

\* StatsCard with a different default for the top emotion
StatsCardUnknownEmotion(s) ==
    [totalMemories  |-> IF s.totalMemories = None THEN 0 ELSE s.totalMemories[1],
     topEmotion     |-> IF s.topEmotion = None THEN unknown ELSE s.topEmotion[1],
     topTopic       |-> IF s.topTopic = None THEN NA ELSE s.topTopic[1],
     avgImportance  |-> IF s.avgImportance = None THEN Zero ELSE s.avgImportance[1],
     lastUpload     |-> s.lastUpload,
     recentEmotions |-> IF s.recentEmotions = None THEN <<>> ELSE s.recentEmotions[1]]

\* StatsCard: const { totalMemories = 0, topEmotion = 'N/A', topTopic = 'N/A',
\* avgImportance = 0, lastUpload = null, recentEmotions = [] } = stats
StatsCard(s) ==
    [totalMemories  |-> IF s.totalMemories = None THEN 0 ELSE s.totalMemories[1],
     topEmotion     |-> IF s.topEmotion = None THEN NA ELSE s.topEmotion[1],
     topTopic       |-> IF s.topTopic = None THEN NA ELSE s.topTopic[1],
     avgImportance  |-> IF s.avgImportance = None THEN Zero ELSE s.avgImportance[1],
     lastUpload     |-> s.lastUpload,
     recentEmotions |-> IF s.recentEmotions = None THEN <<>> ELSE s.recentEmotions[1]]

LoadError == Some("Failed to load memories. Please try again later.")

\* loadMemories, catch: the demo data
DemoMemories ==
    << [EmptyRecord EXCEPT !.id = <<"1">>, !.emotion = Some(happy),
                           !.textContent = Some(<<"T","h","i","s"," ","i","s"," ","a"," ","h","a","p","p","y"," ","m","e","m","o","r","y",".">>)],
       [EmptyRecord EXCEPT !.id = <<"2">>, !.emotion = Some(sad),
                           !.textContent = Some(<<"T","h","i","s"," ","i","s"," ","a"," ","s","a","d"," ","m","e","m","o","r","y",".">>)] >>

\* the memory grid in reverse order
MemoryGridReversed(mems, isLoading) ==
    IF ~isLoading /\ Len(mems) > 0
    THEN [i \in 1..Len(mems) |-> mems[Len(mems) + 1 - i]]
    ELSE <<>>

\* the memory grid: the cards rendered, in order (empty when it is not rendered)
MemoryGrid(mems, isLoading) ==
    IF ~isLoading /\ Len(mems) > 0
    THEN [i \in 1..Len(mems) |-> mems[i]]
    ELSE <<>>

\* the "No memories found" block
NoResults == ~loading /\ error = None /\ Len(memories) = 0

\* collections and panel choices of the explorer runs
ExplorerPool == {Rec1, Rec3}

ExplorerCollections == SeqsUpTo(ExplorerPool, MaxLen)

ExplorerChoices == {<<"emotion", happy>>, <<"emotion", EmptyString>>, <<"topic", work>>}

\* requests a user may still start (ids 1 and 2 go to the loads of the mount)
MaxRequests == 4

\* the child components as they are constructed
InitChildren ==
    /\ panelCalls = <<>>
    /\ keydownListener = FALSE
    /\ selectedFile = None
    /\ uploading = FALSE
    /\ progress = 0
    /\ uploadError = None
    /\ success = FALSE
    /\ xhr = None

Init ==
    /\ collection \in ExplorerCollections
    /\ referenceTime = T0
    /\ mounted = FALSE
    /\ memories = <<>>
    /\ selectedMemory = None
    /\ filters = EmptyFilters
    /\ stats = EmptyStats
    /\ loading = FALSE
    /\ error = None
    /\ memReqs = {}
    /\ statsReqs = {}
    /\ nextId = 1
    /\ stage = "off"
    /\ configuration = EmptyFilters
    /\ queryParams = <<>>
    /\ url = <<>>
    /\ response = None
    /\ filtered = <<>>
    /\ InitChildren

\* a loadMemories call issued with the filters fs, awaiting its response
MemoryRequest(id, fs) == [id |-> id, filters |-> fs, query |-> QueryParams(fs)]

\* a loadStats call issued by a callback that holds a list of this length
StatsRequest(id, heldLength) == [id |-> id, length |-> heldLength]

\* useEffect(() => { loadMemories(); }, [loadMemories]) and
\* useEffect(() => { loadStats(); }, [loadStats]) on mount
Mount ==
    /\ ~mounted
    /\ mounted' = TRUE
    /\ loading' = TRUE
    /\ error' = None
    /\ memReqs' = memReqs \cup {MemoryRequest(nextId, filters)}
    /\ statsReqs' = statsReqs \cup {StatsRequest(nextId + 1, Len(memories))}
    /\ nextId' = nextId + 2
    /\ UNCHANGED <<collection, referenceTime, memories, selectedMemory, filters, stats,
                   callVars, childVars>>

\* a change of filters gives a new loadMemories, whose effect calls it
FiltersChanged(newFilters) ==
    /\ filters' = newFilters
    /\ loading' = TRUE
    /\ error' = None
    /\ memReqs' = memReqs \cup {MemoryRequest(nextId, newFilters)}
    /\ nextId' = nextId + 1
    /\ UNCHANGED <<collection, referenceTime, mounted, memories, selectedMemory, stats,
                   statsReqs, callVars, keydownListener, uploadVars>>

\* FilterPanel.handleFilterChange -> setFilters / MemoryExplorer.handleFilterChange
PanelFilterChange(filterType, value) ==
    /\ mounted
    /\ nextId <= MaxRequests
    /\ panelCalls' = handleFilterChangeCalls(filters, filterType, value)
    /\ FiltersChanged(FiltersAfter(panelCalls'))

\* FilterPanel.resetFilters -> setFilters({}) / MemoryExplorer.handleFilterChange({})
PanelResetFilters ==
    /\ mounted
    /\ nextId <= MaxRequests
    /\ panelCalls' = resetFiltersCalls(filters)
    /\ FiltersChanged(FiltersAfter(panelCalls'))

\* a change of memories.length gives a new loadStats, whose effect calls it
StatsEffect(newMemories) ==
    IF Len(newMemories) # Len(memories)
    THEN /\ statsReqs' = statsReqs \cup {StatsRequest(nextId, Len(newMemories))}
         /\ nextId' = nextId + 1
    ELSE UNCHANGED <<statsReqs, nextId>>

\* loadMemories: fetchMemories resolved; setMemories(data); finally setLoading(false)
MemoriesResolve(q) ==
    /\ q \in memReqs
    /\ memReqs' = memReqs \ {q}
    /\ memories' = CollectionFilter(collection, q.query, referenceTime)
    /\ loading' = FALSE
    /\ StatsEffect(memories')
    /\ UNCHANGED <<collection, referenceTime, mounted, selectedMemory, filters, stats,
                   error, callVars, childVars>>

\* loadMemories: fetchMemories rejected; setError, demo data; finally setLoading(false)
MemoriesReject(q) ==
    /\ q \in memReqs
    /\ memReqs' = memReqs \ {q}
    /\ error' = LoadError
    /\ memories' = DemoMemories
    /\ loading' = FALSE
    /\ StatsEffect(memories')
    /\ UNCHANGED <<collection, referenceTime, mounted, selectedMemory, filters, stats,
                   callVars, childVars>>

\* an aggregator that reverses the stored collection in place before its scan
ServeStatsReversing ==
    /\ stats' = StatisticsSummary(collection)
    /\ collection' = [i \in 1..Len(collection) |-> collection[Len(collection) + 1 - i]]

\* GET /memories/stats answered: the aggregator reads the stored collection
\* and the response body is what setStats receives
ServeStats ==
    /\ stats' = StatisticsSummary(collection)
    /\ collection' = collection

\* loadStats: getMemoryStats resolved; setStats(statsData)
StatsResolve(q) ==
    /\ q \in statsReqs
    /\ statsReqs' = statsReqs \ {q}
    /\ ServeStats
    /\ UNCHANGED <<referenceTime, mounted, memories, selectedMemory, filters,
                   loading, error, memReqs, nextId, callVars, childVars>>

\* loadStats: getMemoryStats rejected; setStats(default stats)
StatsReject(q) ==
    /\ q \in statsReqs
    /\ statsReqs' = statsReqs \ {q}
    /\ stats' = FallbackStats(q.length)
    /\ UNCHANGED <<collection, referenceTime, mounted, memories, selectedMemory, filters,
                   loading, error, memReqs, nextId, callVars, childVars>>

Next ==
    \/ Mount
    \/ \E choice \in ExplorerChoices : PanelFilterChange(choice[1], choice[2])
    \/ PanelResetFilters
    \/ \E q \in memReqs : MemoriesResolve(q)
    \/ \E q \in memReqs : MemoriesReject(q)
    \/ \E q \in statsReqs : StatsResolve(q)
    \/ \E q \in statsReqs : StatsReject(q)

Spec == Init /\ [][Next]_vars

----------------------------------------------------------------------------
(* The explorer loading its list and its statistics over collections that  *)
(* exercise the aggregator; the filters stay as constructed.               *)

\* the seven emotions the statistics card has a colour for
EmotionNames == <<happy, sad, angry, fearful, disgust, surprised, neutral>>

\* the age in days of the seven records below, in collection order
SevenAges == <<3, 1, 7, 5, 2, 6, 4>>

\* seven timestamped records with distinct emotions, not in order of time
SevenRecords ==
    [i \in 1..7 |-> MemoryRecord(<<"s", EmotionNames[i][1]>>, Some(T0 - Days(SevenAges[i])),
                                 Some(EmotionNames[i]), None, None, None)]

\* an emotion without a timestamp
Undated == MemoryRecord(<<"u">>, None, Some(angry), Some(<<family, family>>), None, Some(1))

StatsPool == {Rec1, Rec2, Rec3, Rec4, Rec5, Rec6}

StatsScenarios ==
    {SevenRecords,
     <<Rec4, Undated>> \o SevenRecords,
     <<Rec1, Rec2, Rec3>>,
     <<Rec3, Rec1, Rec2, Rec6>>,
     <<Rec6, Rec4, Rec1, Rec5>>,
     <<Undated, Rec3, Rec1>>}

StatsCollections == SeqsUpTo(StatsPool, MaxLen) \cup StatsScenarios

InitStats ==
    /\ collection \in StatsCollections
    /\ referenceTime = T0
    /\ mounted = FALSE
    /\ memories = <<>>
    /\ selectedMemory = None
    /\ filters = EmptyFilters
    /\ stats = EmptyStats
    /\ loading = FALSE
    /\ error = None
    /\ memReqs = {}
    /\ statsReqs = {}
    /\ nextId = 1
    /\ stage = "off"
    /\ configuration = EmptyFilters
    /\ queryParams = <<>>
    /\ url = <<>>
    /\ response = None
    /\ filtered = <<>>
    /\ InitChildren

NextStats ==
    \/ Mount
    \/ \E q \in memReqs : MemoriesResolve(q)
    \/ \E q \in memReqs : MemoriesReject(q)
    \/ \E q \in statsReqs : StatsResolve(q)
    \/ \E q \in statsReqs : StatsReject(q)

SpecStats == InitStats /\ [][NextStats]_vars

----------------------------------------------------------------------------
(* One filtering call, step by step: the panel sets the configuration,     *)
(* fetchMemories builds the query, the engine filters the collection.      *)

InitCall ==
    /\ collection \in Collections
    /\ referenceTime \in NowSet
    /\ stage = "config"
    /\ configuration = EmptyFilters
    /\ queryParams = <<>>
    /\ url = <<>>
    /\ response = None
    /\ filtered = <<>>
    /\ mounted = FALSE
    /\ memories = <<>>
    /\ selectedMemory = None
    /\ filters = EmptyFilters
    /\ stats = EmptyStats
    /\ loading = FALSE
    /\ error = None
    /\ memReqs = {}
    /\ statsReqs = {}
    /\ nextId = 1
    /\ InitChildren

SetFilter(filterType, value) ==
    /\ stage = "config"
    /\ panelCalls' = handleFilterChangeCalls(configuration, filterType, value)
    /\ configuration' = FiltersAfter(panelCalls')
    /\ UNCHANGED <<collection, referenceTime, stage, queryParams, url, response, filtered,
                   explorerVars, keydownListener, uploadVars>>

ClearFilters ==
    /\ stage = "config"
    /\ panelCalls' = resetFiltersCalls(configuration)
    /\ configuration' = FiltersAfter(panelCalls')
    /\ UNCHANGED <<collection, referenceTime, stage, queryParams, url, response, filtered,
                   explorerVars, keydownListener, uploadVars>>

\* loadMemories up to the await: setLoading(true); setError(null); fetchMemories(filters)
BuildQuery ==
    /\ stage = "config"
    /\ queryParams' = QueryParams(configuration)
    /\ url' = RequestUrl(configuration)
    /\ stage' = "request"
    /\ loading' = TRUE
    /\ error' = None
    /\ UNCHANGED <<collection, referenceTime, configuration, response, filtered, mounted, memories,
                   selectedMemory, filters, stats, memReqs, statsReqs, nextId, childVars>>

\* the server answers 200 with the records the engine selects for the
\* query of the URL
ApplyFilter ==
    /\ stage = "request"
    /\ filtered' = CollectionFilter(collection, ParseQuery(url), referenceTime)
    /\ response' = Some(Response(200))
    /\ stage' = "output"
    /\ UNCHANGED <<collection, referenceTime, configuration, queryParams, url, explorerVars,
                   childVars>>

\* the server answers with a failure status and no records
ServerFails(status) ==
    /\ stage = "request"
    /\ response' = Some(Response(status))
    /\ stage' = "refused"
    /\ UNCHANGED <<collection, referenceTime, configuration, queryParams, url, filtered,
                   explorerVars, childVars>>

\* loadMemories after the await: setMemories(data); finally setLoading(false)
ShowMemories ==
    /\ stage \in {"output", "refused"}
    /\ ~fetchMemoriesThrows(response[1])
    /\ memories' = filtered
    /\ loading' = FALSE
    /\ stage' = "shown"
    /\ UNCHANGED <<collection, referenceTime, configuration, queryParams, url, response,
                   filtered, mounted, selectedMemory, filters, stats, error, memReqs,
                   statsReqs, nextId, childVars>>

\* loadMemories, catch: setError(...); setMemories(demo); finally setLoading(false)
ShowError ==
    /\ stage \in {"output", "refused"}
    /\ fetchMemoriesThrows(response[1])
    /\ error' = LoadError
    /\ memories' = DemoMemories
    /\ loading' = FALSE
    /\ stage' = "failed"
    /\ UNCHANGED <<collection, referenceTime, configuration, queryParams, url, response,
                   filtered, mounted, selectedMemory, filters, stats, memReqs, statsReqs,
                   nextId, childVars>>

NextCall ==
    \/ \E filterType \in FilterKeys : \E value \in PanelValues[filterType] :
           SetFilter(filterType, value)
    \/ ClearFilters
    \/ BuildQuery
    \/ ApplyFilter
    \/ ShowMemories

SpecFilter == InitCall /\ [][NextCall]_vars

\* fetchMemories called with every configuration the panel can hold, the
\* search box also with a text the query string has to encode; the server
\* answers 200 or a failure status
FetchValues == [PanelValues EXCEPT !.search = @ \cup {Symbols}]

FetchOptions(key) == {None} \cup {Some(value) : value \in FetchValues[key]}

FetchConfigurations ==
    {[emotion |-> e, topic |-> t, dateRange |-> d, search |-> s] :
        e \in FetchOptions("emotion"), t \in FetchOptions("topic"),
        d \in FetchOptions("dateRange"), s \in FetchOptions("search")}

InitFetch ==
    /\ collection = <<Rec1, Rec3>>
    /\ referenceTime = T0
    /\ stage = "config"
    /\ configuration \in FetchConfigurations
    /\ queryParams = <<>>
    /\ url = <<>>
    /\ response = None
    /\ filtered = <<>>
    /\ mounted = FALSE
    /\ memories = <<>>
    /\ selectedMemory = None
    /\ filters = EmptyFilters
    /\ stats = EmptyStats
    /\ loading = FALSE
    /\ error = None
    /\ memReqs = {}
    /\ statsReqs = {}
    /\ nextId = 1
    /\ InitChildren

NextFetch ==
    \/ BuildQuery
    \/ ApplyFilter
    \/ \E status \in FailureStatuses : ServerFails(status)
    \/ ShowMemories
    \/ ShowError

SpecFetch == InitFetch /\ [][NextFetch]_vars

----------------------------------------------------------------------------
(* UploadPanel, inside the mounted explorer.                               *)

AudioPrefix == <<"a","u","d","i","o","/">>

audioMpeg == AudioPrefix \o <<"m","p","e","g">>
imagePng  == <<"i","m","a","g","e","/","p","n","g">>
videoMp4  == <<"v","i","d","e","o","/","m","p","4">>
audioWord == <<"a","u","d","i","o">>

\* String.prototype.startsWith
StartsWith(s, prefix) == Len(s) >= Len(prefix) /\ SubSeq(s, 1, Len(prefix)) = prefix

\* handleFileChange: limit to 50MB
MaxFileSize == 50 * 1024 * 1024

File(type, size) == [type |-> type, size |-> size]

\* the MIME types tried (a browser gives '' for a type it does not know)
FileTypes == {audioMpeg, AudioPrefix, imagePng, videoMp4, audioWord, EmptyString}

FileSizes == {0, 1024, MaxFileSize, MaxFileSize + 1}

Files == {File(type, size) : type \in FileTypes, size \in FileSizes}

\* a type test that accepts every type that begins with "audio"
IsAudioLoose(file) == StartsWith(file.type, audioWord)

\* handleFileChange: file.type.startsWith('audio/')
IsAudio(file) == StartsWith(file.type, AudioPrefix)

\* handleFileChange: file.size > 50 * 1024 * 1024
TooLarge(file) == file.size > MaxFileSize

\* handleFileChange(e), chosen = e.target.files[0]; the input is disabled
\* while an upload runs
handleFileChange(chosen) ==
    /\ mounted
    /\ ~uploading
    /\ success' = FALSE
    /\ IF chosen = None
       THEN uploadError' = None /\ selectedFile' = None
       ELSE IF ~IsAudio(chosen[1])
       THEN uploadError' = Some("Please select an audio file") /\ selectedFile' = None
       ELSE IF TooLarge(chosen[1])
       THEN uploadError' = Some("File size must be less than 50MB") /\ selectedFile' = None
       ELSE uploadError' = None /\ selectedFile' = chosen
    /\ UNCHANGED <<collection, referenceTime, explorerVars, callVars, panelCalls,
                   keydownListener, uploading, progress, xhr>>

\* the uploadAudioMemory call awaited by handleUpload: the file sent, and the
\* loadMemories and loadStats that the handleUploadComplete of this render holds
\* (completed: the request has ended while the call is still awaited)
UploadCall(file, fs, heldLength) ==
    [file |-> file, filters |-> fs, length |-> heldLength, completed |-> FALSE]

\* the upload request is in flight
InFlight == xhr # None /\ ~xhr[1].completed

\* an upload that starts with the error message of the previous attempt
ErrorKeptAtUploadStart(previous) == previous

\* handleUpload: setError(null) before the upload starts
ErrorAtUploadStart(previous) == None

\* handleUpload up to the await
handleUpload ==
    /\ IF selectedFile = None
       THEN /\ uploadError' = Some("Please select a file first")
            /\ UNCHANGED <<uploading, progress, xhr>>
       ELSE /\ uploading' = TRUE
            /\ uploadError' = ErrorAtUploadStart(uploadError)
            /\ progress' = 0
            /\ xhr' = Some(UploadCall(selectedFile[1], filters, Len(memories)))
    /\ UNCHANGED <<collection, referenceTime, explorerVars, callVars, panelCalls,
                   keydownListener, selectedFile, success>>

\* the Upload button: disabled={!selectedFile || uploading}
ClickUpload ==
    /\ mounted
    /\ selectedFile # None
    /\ ~uploading
    /\ nextId <= MaxRequests
    /\ handleUpload

\* handleUpload invoked without a selected file (the button is disabled then)
CallUploadWithoutFile ==
    /\ mounted
    /\ selectedFile = None
    /\ ~uploading
    /\ handleUpload

\* the progress events of xhr.upload tried
ProgressEvents ==
    {[lengthComputable |-> FALSE, loaded |-> 1, total |-> 0]} \cup
    {[lengthComputable |-> TRUE, loaded |-> n, total |-> 3] : n \in 0..3}

\* Math.round((event.loaded / event.total) * 100), halves rounded up
PercentComplete(event) == (200 * event.loaded + event.total) \div (2 * event.total)

\* uploadAudioMemory: the 'progress' listener, onProgress -> setProgress
UploadProgress(event) ==
    /\ InFlight
    /\ progress' = IF event.lengthComputable THEN PercentComplete(event) ELSE progress
    /\ UNCHANGED <<collection, referenceTime, explorerVars, callVars, panelCalls,
                   keydownListener, selectedFile, uploading, uploadError, success, xhr>>

\* handleUpload after the await resolved: setSuccess(true); setSelectedFile(null);
\* onUploadComplete(result) -> handleUploadComplete: loadMemories(); loadStats();
\* finally setUploading(false)
UploadResolve ==
    /\ InFlight
    /\ xhr' = None
    /\ success' = TRUE
    /\ selectedFile' = None
    /\ uploading' = FALSE
    /\ loading' = TRUE
    /\ error' = None
    /\ memReqs' = memReqs \cup {MemoryRequest(nextId, xhr[1].filters)}
    /\ statsReqs' = statsReqs \cup {StatsRequest(nextId + 1, xhr[1].length)}
    /\ nextId' = nextId + 2
    /\ UNCHANGED <<collection, referenceTime, mounted, memories, selectedMemory, filters,
                   stats, callVars, panelCalls, keydownListener, progress, uploadError>>

\* `Upload failed: ${xhr.status} ${xhr.statusText}` for the statuses tried
StatusFailure ==
    [status \in {300, 404, 500} |->
        CASE status = 300 -> "Upload failed: 300 Multiple Choices"
          [] status = 404 -> "Upload failed: 404 Not Found"
          [] status = 500 -> "Upload failed: 500 Internal Server Error"]

\* the messages uploadAudioMemory rejects with (onload with a status outside
\* 200..299, onerror)
UploadFailures ==
    {StatusFailure[status] : status \in DOMAIN StatusFailure} \cup
    {"Network error during upload"}

\* a failure that also drops the selected file
UploadRejectClearsFile(message) ==
    /\ InFlight
    /\ xhr' = None
    /\ uploadError' = Some(message)
    /\ uploading' = FALSE
    /\ selectedFile' = None
    /\ UNCHANGED <<collection, referenceTime, explorerVars, callVars, panelCalls,
                   keydownListener, progress, success>>

\* handleUpload after the await rejected: setError(err.message); finally
\* setUploading(false)
UploadReject(message) ==
    /\ InFlight
    /\ xhr' = None
    /\ uploadError' = Some(message)
    /\ uploading' = FALSE
    /\ UNCHANGED <<collection, referenceTime, explorerVars, callVars, panelCalls,
                   keydownListener, selectedFile, progress, success>>

\* cancelUpload; the Cancel button is rendered when selectedFile && !uploading
cancelUpload ==
    /\ mounted
    /\ selectedFile # None
    /\ ~uploading
    /\ selectedFile' = None
    /\ uploadError' = None
    /\ success' = FALSE
    /\ UNCHANGED <<collection, referenceTime, explorerVars, callVars, panelCalls,
                   keydownListener, uploading, progress, xhr>>

\* how the request ended: the load event with an HTTP status and a response
\* text that is JSON or not, or the error event
XhrOutcome(kind, status, json) == [kind |-> kind, status |-> status, json |-> json]

XhrOutcomes ==
    {XhrOutcome("load", status, json) :
        status \in {200, 299} \cup DOMAIN StatusFailure, json \in BOOLEAN}
    \cup {XhrOutcome("error", 0, FALSE)}

\* uploadAudioMemory, xhr.onload and xhr.onerror: how the promise settles.
\* JSON.parse throws inside onload on a text that is not JSON: neither
\* resolve nor reject is called then
Settlement(outcome) ==
    IF outcome.kind = "error"
    THEN [promise |-> "rejected", message |-> "Network error during upload"]
    ELSE IF outcome.status >= 200 /\ outcome.status < 300
    THEN IF outcome.json
         THEN [promise |-> "resolved", message |-> ""]
         ELSE [promise |-> "pending", message |-> ""]
    ELSE [promise |-> "rejected", message |-> StatusFailure[outcome.status]]

\* the request has ended and handleUpload still awaits the promise
UploadPending ==
    /\ InFlight
    /\ xhr' = Some([xhr[1] EXCEPT !.completed = TRUE])
    /\ UNCHANGED <<collection, referenceTime, explorerVars, callVars, panelCalls,
                   keydownListener, selectedFile, uploading, progress, uploadError, success>>

\* the request ends and handleUpload continues according to the promise
XhrCompletes(outcome) ==
    /\ InFlight
    /\ CASE Settlement(outcome).promise = "resolved" -> UploadResolve
         [] Settlement(outcome).promise = "rejected" ->
                UploadReject(Settlement(outcome).message)
         [] Settlement(outcome).promise = "pending"  -> UploadPending

NextUpload ==
    \/ Mount
    \/ \E chosen \in {None} \cup {Some(file) : file \in Files} : handleFileChange(chosen)
    \/ ClickUpload
    \/ \E event \in ProgressEvents : UploadProgress(event)
    \/ \E outcome \in XhrOutcomes : XhrCompletes(outcome)
    \/ cancelUpload

SpecUpload == Init /\ [][NextUpload]_vars

\* the panel with handleUpload also invoked past its disabled button
NextHandlers ==
    \/ NextUpload
    \/ CallUploadWithoutFile

SpecHandlers == Init /\ [][NextHandlers]_vars

\* the explorer with its filter panel and its upload panel in use together
ReloadFile == File(audioMpeg, 1024)

ReloadChoices == {<<"emotion", happy>>, <<"topic", work>>}

ReloadOutcomes ==
    {XhrOutcome("load", 200, TRUE), XhrOutcome("load", 500, TRUE), XhrOutcome("error", 0, FALSE)}

NextReload ==
    \/ Mount
    \/ \E choice \in ReloadChoices : PanelFilterChange(choice[1], choice[2])
    \/ handleFileChange(Some(ReloadFile))
    \/ ClickUpload
    \/ \E outcome \in ReloadOutcomes : XhrCompletes(outcome)
    \/ \E q \in memReqs : MemoriesResolve(q)
    \/ \E q \in memReqs : MemoriesReject(q)
    \/ \E q \in statsReqs : StatsResolve(q)
    \/ \E q \in statsReqs : StatsReject(q)

InitReload == Init /\ collection = <<Rec1, Rec3>>

SpecReload == InitReload /\ [][NextReload]_vars

----------------------------------------------------------------------------
(* MemoryModal, opened from the grid of the explorer.                      *)

\* what a click inside the rendered modal can hit
ModalTargets == {"backdrop", "content", "closeButton", "footerClose"}

\* a backdrop handler without the test of the event target
handleBackdropClickAnywhere(target) == TRUE

\* handleBackdropClick: e.target === backdropRef.current (onClose is called)
handleBackdropClick(target) == target = "backdrop"

\* onClose = () => setSelectedMemory(null): the modal is unmounted and the
\* cleanup of its effect removes the keydown listener
onClose ==
    /\ selectedMemory' = None
    /\ keydownListener' = FALSE
    /\ UNCHANGED <<collection, referenceTime, mounted, memories, filters, stats, loading,
                   error, memReqs, statsReqs, nextId, callVars, panelCalls, uploadVars>>

\* MemoryCard onClick -> setSelectedMemory(memory): the modal is mounted and
\* its effect adds the keydown listener; the backdrop of an open modal covers
\* the grid
CardClick(i) ==
    /\ selectedMemory = None
    /\ i \in 1..Len(MemoryGrid(memories, loading))
    /\ selectedMemory' = Some(MemoryGrid(memories, loading)[i])
    /\ keydownListener' = TRUE
    /\ UNCHANGED <<collection, referenceTime, mounted, memories, filters, stats, loading,
                   error, memReqs, statsReqs, nextId, callVars, panelCalls, uploadVars>>

\* a click inside the rendered modal: the two buttons call onClose, and the
\* click bubbles to the backdrop's handleBackdropClick
ModalClick(target) ==
    /\ selectedMemory # None
    /\ IF target \in {"closeButton", "footerClose"} \/ handleBackdropClick(target)
       THEN onClose
       ELSE UNCHANGED vars

\* the window keydown listener of the modal: handleKeyDown
KeyDown(key) ==
    /\ keydownListener
    /\ IF key = "Escape" THEN onClose ELSE UNCHANGED vars

NextModal ==
    \/ Mount
    \/ \E q \in memReqs : MemoriesResolve(q)
    \/ \E q \in memReqs : MemoriesReject(q)
    \/ \E q \in statsReqs : StatsResolve(q)
    \/ \E q \in statsReqs : StatsReject(q)
    \/ \E i \in 1..MaxLen : CardClick(i)
    \/ \E target \in ModalTargets : ModalClick(target)
    \/ \E key \in {"Escape", "Enter"} : KeyDown(key)

SpecModal == Init /\ [][NextModal]_vars

----------------------------------------------------------------------------
(* Properties of one filtering call (SpecFilter).                          *)

Output == stage \in {"output", "shown"}

\* a is b with some elements left out: same elements, same relative order
IsSubsequence(a, b) ==
    \E idx \in [1..Len(a) -> 1..Len(b)] :
        /\ \A i, j \in 1..Len(a) : i < j => idx[i] < idx[j]
        /\ \A i \in 1..Len(a) : b[idx[i]] = a[i]

\* C1: the output of the Collection Filter is a subsequence of its input in
\* the same relative order (nothing reordered, duplicated or added), and the
\* explorer's grid shows the records it holds in exactly their order.
C1_OrderPreserved ==
    /\ Output => IsSubsequence(filtered, collection)
    /\ stage = "shown" =>
           /\ memories = filtered
           /\ MemoryGrid(memories, loading) = memories

C1_Witness ==
    /\ stage = "shown"
    /\ Len(collection) = 3
    /\ Len(filtered) = 2
    /\ filtered[1] # filtered[2]
    /\ MemoryGrid(memories, loading) = filtered

\* the configured value of a dimension is absent or the empty string
Unset(k) == configuration[k] = None \/ configuration[k][1] = EmptyString

OnlyDimension(k, v) == configuration = [EmptyFilters EXCEPT ![k] = Some(v)]

\* the four dimensions, stated on the configuration the panel holds
PassesEmotion(r) ==
    Unset("emotion") \/
        (r.emotion # None /\ ToLowerCase(r.emotion[1]) = configuration.emotion[1])

PassesTopic(r) ==
    Unset("topic") \/
        (r.topics # None /\ configuration.topic[1] \in {r.topics[1][i] : i \in 1..Len(r.topics[1])})

ClaimBoundary(range, now) ==
    IF range = today THEN HoursPerDay * (now \div HoursPerDay)
    ELSE IF range = week THEN now - 7 * 24
    ELSE IF range = month THEN MonthBack(now)
    ELSE YearBack(now)

PassesDateRange(r) ==
    \/ Unset("dateRange")
    \/ configuration.dateRange[1] \notin {today, week, month, year}
    \/ /\ r.timestamp # None
       /\ r.timestamp[1] >= ClaimBoundary(configuration.dateRange[1], referenceTime)

PassesSearch(r) ==
    \/ configuration.search = None
    \/ IsBlank(configuration.search[1])
    \/ /\ r.textContent # None
       /\ Len(configuration.search[1]) > 0
       /\ IsSubstring(ToLowerCase(configuration.search[1]), ToLowerCase(r.textContent[1]))

PassesAllBut(r, k) ==
    /\ k = "emotion" \/ PassesEmotion(r)
    /\ k = "topic" \/ PassesTopic(r)
    /\ k = "dateRange" \/ PassesDateRange(r)
    /\ k = "search" \/ PassesSearch(r)

\* C2: a record passes the filter iff it passes every dimension that is set
\* (an absent dimension matches every record); the records (happy,[work]),
\* (happy,[family]), (sad,[work]) filtered by emotion=happy and topic=work
\* give exactly the first one.
C2_Conjunction ==
    Output =>
        /\ filtered = SelectSeq(collection, LAMBDA r :
               \A k \in FilterKeys :
                   \/ configuration[k] = None
                   \/ /\ k = "emotion" => PassesEmotion(r)
                      /\ k = "topic" => PassesTopic(r)
                      /\ k = "dateRange" => PassesDateRange(r)
                      /\ k = "search" => PassesSearch(r))
        /\ (/\ collection = <<Rec1, Rec2, Rec3>>
            /\ configuration = [EmptyFilters EXCEPT !.emotion = Some(happy),
                                                    !.topic = Some(work)])
              => filtered = <<Rec1>>

C2_Witness ==
    /\ Output
    /\ collection = <<Rec1, Rec2, Rec3>>
    /\ configuration = [EmptyFilters EXCEPT !.emotion = Some(happy), !.topic = Some(work)]
    /\ filtered = <<Rec1>>

\* C4: filtering the output again with the same configuration and the same
\* reference time returns the identical sequence.
C4_Idempotent ==
    Output =>
        CollectionFilter(filtered, QueryParams(configuration), referenceTime) = filtered

C4_Witness ==
    /\ Output
    /\ Len(collection) = 3
    /\ Len(filtered) = 2
    /\ ~Unset("emotion")
    /\ ~Unset("dateRange")

\* C5: with dateRange today, week, month or year a record matches iff it has
\* a timestamp on or after the start boundary (week: seven days before the
\* reference time); records at T-2, T-10 and T-400 days filtered by week give
\* only the first.
C5_DateRange ==
    Output =>
        /\ configuration.dateRange # None /\ configuration.dateRange[1] \in {today, week, month, year}
             => filtered = SelectSeq(collection, LAMBDA r :
                    /\ PassesAllBut(r, "dateRange")
                    /\ r.timestamp # None
                    /\ r.timestamp[1] >=
                           ClaimBoundary(configuration.dateRange[1], referenceTime))
        /\ (Unset("dateRange") \/ configuration.dateRange[1] = all)
             => filtered = SelectSeq(collection, LAMBDA r : PassesAllBut(r, "dateRange"))
        /\ (/\ collection = <<Rec1, Rec2, Rec3>>
            /\ referenceTime = T0
            /\ OnlyDimension("dateRange", week))
              => filtered = <<Rec1>>

C5_Witness ==
    /\ Output
    /\ collection = <<Rec1, Rec2, Rec3>>
    /\ referenceTime = T0
    /\ OnlyDimension("dateRange", week)
    /\ filtered = <<Rec1>>

\* C6: a record matches the emotion dimension iff its lower-cased emotion
\* equals the configured emotion; with the emotion absent or '' every record
\* matches on this dimension, also one without an emotion.
C6_Emotion ==
    Output =>
        filtered = SelectSeq(collection, LAMBDA r :
            /\ PassesAllBut(r, "emotion")
            /\ \/ configuration.emotion = None
               \/ configuration.emotion[1] = EmptyString
               \/ /\ r.emotion # None
                  /\ ToLowerCase(r.emotion[1]) = configuration.emotion[1])

\* "Happy" is kept by emotion=happy, the record without emotion is dropped
C6_Witness ==
    /\ Output
    /\ collection = <<Rec5, Rec4>>
    /\ OnlyDimension("emotion", happy)
    /\ filtered = <<Rec5>>

\* C7: a record matches the topic dimension iff the configured topic is an
\* element of its topics (containing it as a substring is no match); a record
\* without topics matches only when the topic is absent or ''.
C7_Topic ==
    Output =>
        /\ filtered = SelectSeq(collection, LAMBDA r :
               /\ PassesAllBut(r, "topic")
               /\ \/ configuration.topic = None
                  \/ configuration.topic[1] = EmptyString
                  \/ /\ r.topics # None
                     /\ \E i \in 1..Len(r.topics[1]) : r.topics[1][i] = configuration.topic[1])
        /\ ~Unset("topic") =>
               \A i \in 1..Len(filtered) :
                   /\ filtered[i].topics # None
                   /\ filtered[i] # Rec5

\* "homework" is no match for topic=work
C7_Witness ==
    /\ Output
    /\ collection = <<Rec3, Rec1, Rec5>>
    /\ OnlyDimension("topic", work)
    /\ filtered = <<Rec3, Rec1>>

\* C8: a record matches the search dimension iff the lower-cased query is a
\* non-empty substring of a lower-cased candidate field; an empty or
\* whitespace-only query matches every record.
C8_Search ==
    Output =>
        /\ filtered = SelectSeq(collection, LAMBDA r :
               /\ PassesAllBut(r, "search")
               /\ \/ configuration.search = None
                  \/ IsBlank(configuration.search[1])
                  \/ /\ r.textContent # None
                     /\ IsSubstring(ToLowerCase(configuration.search[1]),
                                    ToLowerCase(r.textContent[1])))
        /\ (configuration.search \in {Some(EmptyString), Some(Spaces)}
            /\ \A k \in FilterKeys \ {"search"} : Unset(k))
              => filtered = collection

\* "Morning Coffee" and "coffee" are found by COFFEE, "tea at work" is not
C8_Witness ==
    /\ Output
    /\ collection = <<Rec3, Rec1, Rec5>>
    /\ OnlyDimension("search", COFFEE)
    /\ filtered = <<Rec1, Rec5>>

\* C9: a dateRange outside today, week, month, year, all filters exactly as
\* dateRange = all does, whatever the other dimensions are.
C9_UnknownRange ==
    (Output /\ configuration.dateRange # None /\ configuration.dateRange[1] \notin DateRangeIds)
        => filtered = CollectionFilter(collection,
                          QueryParams([configuration EXCEPT !.dateRange = Some(all)]),
                          referenceTime)

C9_Witness ==
    /\ Output
    /\ configuration.dateRange = Some(decade)
    /\ configuration.emotion = Some(happy)
    /\ collection = <<Rec1, Rec2, Rec3>>
    /\ filtered = <<Rec1, Rec2>>

----------------------------------------------------------------------------
(* Properties of fetchMemories (SpecFetch).                                *)

\* the filter entries fetchMemories has to send: those that are set and
\* not the empty string
SentKeys == {k \in FilterKeys : configuration[k] # None /\ configuration[k][1] # EmptyString}

\* C21: fetchMemories sends exactly the filter entries whose value is set
\* and not '', each under its own key and with its value as the server
\* reads it back from the URL; when no entry qualifies the URL is the bare
\* /memories without "?"; and a response that is not ok ends in the
\* catch of the caller (error, demonstration records), never in its data.
C21_RequestSent ==
    stage \in {"request", "output", "refused", "shown", "failed"} =>
        /\ queryParams = [k \in SentKeys |-> configuration[k][1]]
        /\ ParseQuery(url) = [k \in SentKeys |-> configuration[k][1]]
        /\ (SentKeys = {} => url = MemoriesPath)
        /\ (stage \in {"shown", "failed"} /\ ~response[1].ok =>
                stage = "failed" /\ error = LoadError /\ memories = DemoMemories)

C21_Witness ==
    /\ stage = "failed"
    /\ response = Some(Response(500))
    /\ configuration.search = Some(Symbols)
    /\ configuration.topic = Some(EmptyString)
    /\ configuration.emotion = None
    /\ configuration.dateRange = Some(week)
    /\ Len(url) > Len(MemoriesPath)

----------------------------------------------------------------------------
(* Properties of the explorer (Spec).                                      *)

\* C3: resetFilters leaves the all-absent configuration, the request built
\* from an all-absent configuration carries no filter parameter, and its
\* response is the whole collection: no record is dropped.
C3_EmptyFilterIdentity ==
    /\ [][PanelResetFilters =>
            /\ filters' = EmptyFilters
            /\ \A q \in memReqs' \ memReqs : q.filters = EmptyFilters]_vars
    /\ [](\A q \in memReqs : q.filters = EmptyFilters => DOMAIN q.query = {})
    /\ [][\A q \in memReqs :
            (MemoriesResolve(q) /\ q.filters = EmptyFilters) => memories' = collection]_vars

\* the request of a reset is in flight while the list still shows a filtered view
C3_Witness ==
    /\ \E q \in memReqs : q.id > 2 /\ q.filters = EmptyFilters /\ DOMAIN q.query = {}
    /\ filters = EmptyFilters
    /\ error = None
    /\ Len(memories) = 1
    /\ Len(collection) = 2

\* C10: totalMemories of a summary is the number of records of the collection,
\* and the fallback statistics built when the stats request fails report the
\* length of the memory list the explorer holds.
C10_TotalMemories ==
    /\ [](StatisticsSummary(collection).totalMemories = Some(Len(collection)))
    /\ [][\A q \in statsReqs :
            StatsReject(q) => stats'.totalMemories = Some(Len(memories'))]_vars

C17_FilterChange ==
    [][\A choice \in ExplorerChoices :
          PanelFilterChange(choice[1], choice[2]) =>
              /\ filters'[choice[1]] = Some(choice[2])
              /\ \A k \in FilterKeys \ {choice[1]} : filters'[k] = filters[k]
              /\ \A q \in memReqs : q \in memReqs'
              /\ panelCalls' = <<[prop |-> "setFilters", arg |-> filters'],
                                 [prop |-> "onFilterChange", arg |-> filters']>>]_vars

\* the topic was changed after the emotion, while a load with the previous
\* configuration is still in flight
C17_Witness ==
    /\ filters = [EmptyFilters EXCEPT !.emotion = Some(happy), !.topic = Some(work)]
    /\ \E q \in memReqs : q.filters = [EmptyFilters EXCEPT !.emotion = Some(happy)]
    /\ Len(panelCalls) = 2
    /\ panelCalls[1].arg = filters
    /\ panelCalls[2].arg = filters

\* C22: once no load is running, a set error message comes with a
\* non-empty list (the two demonstration records), so the error banner is
\* never shown over an empty list.
C22_ErrorWithDemoRecords ==
    (memReqs = {} /\ error # None) => Len(memories) > 0

\* C26: when the last pending fetch settles, the list shown is the one for
\* the most recent configuration, whatever the order in which the
\* responses arrived: an older response never replaces a newer one.
C26_LatestResponseWins ==
    [][\A q \in memReqs :
           (MemoriesResolve(q) /\ memReqs' = {}) =>
               memories' = CollectionFilter(collection, QueryParams(filters), referenceTime)
      ]_vars

\* C27: loading is true in every state in which a fetch of the list is in
\* flight, so the grid and the empty state are not rendered while one is
\* pending.
C27_LoadingWhilePending ==
    memReqs # {} => loading

\* C28: when no request is in flight and the statistics shown are the
\* fallback of a failed statistics request, totalMemories is the length of
\* the list the explorer holds.
C28_FallbackTotal ==
    (memReqs = {} /\ statsReqs = {} /\ stats.totalMemories # None
        /\ stats = FallbackStats(stats.totalMemories[1])) =>
            stats.totalMemories = Some(Len(memories))

----------------------------------------------------------------------------
(* Properties of the statistics (SpecStats).                               *)

\* the stats the explorer holds are a summary the service answered with
\* (the default stats of loadStats never have a top topic)
Served == stats.topTopic # None

\* the records of the collection that carry this emotion label
WithEmotion(label) == {i \in 1..Len(collection) : collection[i].emotion = Some(label)}

FirstOf(S) == CHOOSE i \in S : \A j \in S : i <= j

\* the label is a top emotion of the collection under the tie-break rule
IsTopEmotion(label) ==
    /\ WithEmotion(label) # {}
    /\ \A j \in 1..Len(collection) : collection[j].emotion # None =>
           LET other == collection[j].emotion[1]
           IN  \/ Cardinality(WithEmotion(other)) < Cardinality(WithEmotion(label))
               \/ /\ Cardinality(WithEmotion(other)) = Cardinality(WithEmotion(label))
                  /\ FirstOf(WithEmotion(label)) <= FirstOf(WithEmotion(other))

\* C11: the topEmotion of a summary the service answers with is the emotion
\* label with the highest number of records; among labels with the same highest
\* number it is the one whose first record comes first in the collection; it
\* is "N/A" when no record has an emotion.
C11_TopEmotion ==
    [][\A q \in statsReqs : StatsResolve(q) =>
          /\ stats'.topEmotion # None
          /\ IF \A i \in 1..Len(collection) : collection[i].emotion = None
             THEN stats'.topEmotion[1] = NA
             ELSE IsTopEmotion(stats'.topEmotion[1])]_vars

\* a served summary over two labels with two records each, where the label of
\* the first record wins although the other label was counted last
C11_Witness ==
    /\ Served
    /\ Len(collection) = 4
    /\ collection[1].emotion = Some(sad)
    /\ Cardinality(WithEmotion(sad)) = 2
    /\ Cardinality(WithEmotion(happy)) = 2
    /\ collection[4].emotion = Some(sad)
    /\ stats.topEmotion = Some(sad)

\* the records of the collection that have an importance score
Scored == {i \in 1..Len(collection) : collection[i].importanceScore # None}

RECURSIVE ScoreSum(_)
ScoreSum(S) ==
    IF S = {} THEN 0
    ELSE LET i == CHOOSE x \in S : TRUE
         IN  collection[i].importanceScore[1] + ScoreSum(S \ {i})

\* C12: the avgImportance of a summary the service answers with is the sum of
\* the importance scores divided by the number of records that have one
\* (records without the field count in neither), and it is exactly 0 when no
\* record has the field, the empty collection included.
C12_AvgImportance ==
    [][\A q \in statsReqs : StatsResolve(q) =>
          /\ stats'.avgImportance # None
          /\ LET avg == stats'.avgImportance[1]
             IN  IF Scored = {} THEN avg = Zero
                 ELSE /\ avg.den > 0
                      /\ avg.num * Cardinality(Scored) = ScoreSum(Scored) * avg.den]_vars

\* a served mean over three scored records of four that is not a whole number
C12_Witness ==
    /\ Served
    /\ Len(collection) = 4
    /\ Cardinality(Scored) = 3
    /\ stats.avgImportance = Some([num |-> 230, den |-> 3])

\* the records of the collection that have both an emotion and a timestamp
Dated == {i \in 1..Len(collection) :
             collection[i].emotion # None /\ collection[i].timestamp # None}

Newer(i) == {j \in Dated : collection[j].timestamp[1] > collection[i].timestamp[1]}

NotOlder(i) == {j \in Dated : collection[j].timestamp[1] >= collection[i].timestamp[1]}

\* C13: the recentEmotions of a summary the service answers with has length
\* min(5, number of records with both an emotion and a timestamp); its k-th
\* entry is the emotion of such a record that is the k-th most recent one; so
\* seven timestamped records with distinct emotions give exactly 5 entries.
C13_RecentEmotions ==
    [][\A q \in statsReqs : StatsResolve(q) =>
          /\ stats'.recentEmotions # None
          /\ LET recent == stats'.recentEmotions[1]
             IN  /\ Len(recent) = IF Cardinality(Dated) < 5 THEN Cardinality(Dated) ELSE 5
                 /\ \A k \in 1..Len(recent) : \E i \in Dated :
                        /\ collection[i].emotion = Some(recent[k])
                        /\ Cardinality(Newer(i)) <= k - 1
                        /\ Cardinality(NotOlder(i)) >= k
                 /\ (Cardinality(Dated) = 7 /\ Len(collection) = 7) => Len(recent) = 5]_vars

\* the seven records served: the five most recent emotions, most recent first
C13_Witness ==
    /\ Served
    /\ Len(collection) = 7
    /\ Cardinality({collection[i].emotion : i \in Dated}) = 7
    /\ stats.recentEmotions = Some(<<sad, disgust, happy, neutral, fearful>>)

\* C14: the summary of the empty collection is totalMemories 0, topEmotion
\* "N/A", topTopic "N/A", avgImportance 0, no last upload and no recent
\* emotions; and the statistics card shows these same values for every field
\* that the stats object it is given lacks, and the given value otherwise.
C14_EmptyCollection ==
    /\ [][\A q \in statsReqs : (StatsResolve(q) /\ collection = <<>>) =>
             stats' = [totalMemories  |-> Some(0),
                       topEmotion     |-> Some(NA),
                       topTopic       |-> Some(NA),
                       avgImportance  |-> Some(Zero),
                       lastUpload     |-> None,
                       recentEmotions |-> Some(<<>>)]]_vars
    /\ [](\A missing \in SUBSET StatsKeys :
             LET given == [k \in StatsKeys |-> IF k \in missing THEN None ELSE stats[k]]
                 card  == StatsCard(given)
             IN  /\ card.totalMemories = IF given.totalMemories = None THEN 0
                                         ELSE given.totalMemories[1]
                 /\ card.topEmotion = IF given.topEmotion = None THEN NA
                                      ELSE given.topEmotion[1]
                 /\ card.topTopic = IF given.topTopic = None THEN NA
                                    ELSE given.topTopic[1]
                 /\ card.avgImportance = IF given.avgImportance = None THEN Zero
                                         ELSE given.avgImportance[1]
                 /\ card.lastUpload = given.lastUpload
                 /\ card.recentEmotions = IF given.recentEmotions = None THEN <<>>
                                          ELSE given.recentEmotions[1])

\* the summary of the empty collection, served and shown
C14_Witness ==
    /\ Served
    /\ collection = <<>>
    /\ StatsCard(stats).totalMemories = 0
    /\ StatsCard(stats).topEmotion = NA

\* C15: the statistics the explorer sets when GET /memories/stats fails show
\* the same totalMemories, topEmotion, topTopic, avgImportance, last upload
\* and recentEmotions as the StatisticsSummary of the list it holds.
C15_FallbackEquivalent ==
    [][\A q \in statsReqs :
          StatsReject(q) => StatsCard(stats') = StatsCard(StatisticsSummary(memories'))]_vars

----------------------------------------------------------------------------
(* Properties of the upload panel (SpecUpload).                            *)

C23_UploadOutcomes ==
    [][/\ (xhr # None /\ xhr' = None) =>
            /\ uploading /\ ~uploading'
            /\ \/ /\ success' /\ selectedFile' = None /\ uploadError' = None
                  /\ nextId' = nextId + 2
                  /\ Cardinality(memReqs') = Cardinality(memReqs) + 1
                  /\ Cardinality(statsReqs') = Cardinality(statsReqs) + 1
               \/ /\ ~success /\ ~success' /\ uploadError' # None
                  /\ selectedFile # None /\ selectedFile' = selectedFile
                  /\ memReqs' = memReqs /\ statsReqs' = statsReqs /\ nextId' = nextId
       /\ (uploading /\ ~uploading') => (xhr # None /\ xhr' = None)
       /\ CallUploadWithoutFile =>
            /\ uploadError' = Some("Please select a file first")
            /\ xhr = None /\ xhr' = None
            /\ ~uploading' /\ success' = success
            /\ memReqs' = memReqs /\ statsReqs' = statsReqs
      ]_vars

\* a failed upload: the file is still selected and can be sent again
C23_Witness ==
    /\ uploadError = Some("Network error during upload")
    /\ selectedFile # None
    /\ ~uploading
    /\ ~success
    /\ xhr = None

\* C24: uploadAudioMemory settles once for every request that ends: after
\* the load or error event the call is resolved or rejected, so no ended
\* request is still awaited.
C24_SettlesWhenRequestEnds ==
    xhr # None => ~xhr[1].completed

\* C29: uploading is true exactly in the states in which an upload request
\* is in flight.
C29_UploadingIffInFlight ==
    uploading <=> InFlight

\* C30: in every state reached through the panel's enabled controls
\* (choosing a file, Upload, Cancel), success and an error message are
\* never both set, and success is never set while a file is selected.
C30_SuccessExclusive ==
    /\ ~(success /\ uploadError # None)
    /\ (success => selectedFile = None)

\* an upload has succeeded and the panel shows its success message
C30_Witness ==
    /\ success
    /\ ~uploading
    /\ xhr = None
    /\ progress = 100

----------------------------------------------------------------------------
(* Properties of the explorer with both panels in use (SpecReload).        *)

\* C25: every successful upload is followed by a reload of the list with
\* the filters the explorer holds at that moment, and by a reload of the
\* statistics.
C25_ReloadWithCurrentFilters ==
    [][(xhr # None /\ xhr' = None /\ success') =>
           /\ \E q \in memReqs' \ memReqs : q.filters = filters'
           /\ statsReqs' \ statsReqs # {}
      ]_vars

----------------------------------------------------------------------------
(* Properties of the detail modal (SpecModal).                             *)

\* C20: the modal's keydown listener exists exactly while a memory is
\* selected (the modal is rendered); a click on a card selects that card's
\* memory; the close buttons, the Escape key and a click on the backdrop
\* itself clear the selection; a click inside the content leaves it; and
\* onClose is invoked by a key press only while a memory is selected.
C20_ModalShownIffSelected ==
    /\ [](keydownListener <=> selectedMemory # None)
    /\ [][\A i \in 1..MaxLen : CardClick(i) =>
             /\ i <= Len(memories)
             /\ selectedMemory' = Some(memories[i])
             /\ keydownListener']_vars
    /\ [][\A target \in ModalTargets : ModalClick(target) =>
             IF target = "content"
             THEN selectedMemory' = selectedMemory
             ELSE selectedMemory' = None]_vars
    /\ [][\A key \in {"Escape", "Enter"} : KeyDown(key) =>
             /\ selectedMemory # None
             /\ selectedMemory' = IF key = "Escape" THEN None ELSE selectedMemory]_vars

\* the second card of the grid was clicked: its memory is shown in the modal
C20_Witness ==
    /\ Len(memories) = 2
    /\ selectedMemory = Some(memories[2])
    /\ memories[1] # memories[2]
    /\ keydownListener
    /\ ~loading

====
